---- MODULE Spec2Model ----
(***************************************************************************)
(* Model of src/src/train_VAE_Vanilla.py.                                  *)
(*                                                                         *)
(*   Spec     run_VAE_training as a sequential process (one action per     *)
(*            block of statements, pc is the position in the function).    *)
(*   SpecKL   VariationalAutoencoder.kl_divergence applied to tensors      *)
(*            drawn from a bounded grid.                                   *)
(*   SpecFwd  VariationalAutoencoder.forward (encoder, reparameterised     *)
(*            sample, decoder, ELBO) on small batches, with the global     *)
(*            random source as state.                                      *)
(*                                                                         *)
(* Real numbers are fixed-point integers with Scale units per 1.0 and      *)
(* round-to-nearest results, the finite-precision analogue of the float32  *)
(* tensors of the program.                                                 *)
(***************************************************************************)
EXTENDS Integers, Sequences, FiniteSets, TLC

VARIABLES
    \* ---- run_VAE_training ----
    pc,          \* position in run_VAE_training
    ldim,        \* argument ldim
    epochs,      \* argument epochs
    trainLoader, \* train_dataloader: sequence of batches, each its column count
    bound,       \* local names that have been assigned
    n_cols,      \* local n_cols (meaningful when "n_cols" \in bound)
    t,           \* loop variable of `for t in range(epochs)`
    lists,       \* the six per-epoch lists
    z,           \* local z (meaningful when "z" \in bound)
    vae,         \* <<>> before construction, <<version>> of the parameters after
    optimizer,   \* TRUE once torch.optim.Adam(...) was created
    calls,       \* log of the train()/test() calls made
    stdout,      \* lines written to standard output
    stderrOut,   \* lines written to the standard error stream
    sys_stderr,  \* the object bound to sys.stderr
    exitStatus,  \* <<>> while running, <<code>> after sys.exit(code)
    saved,       \* sequence of objects written by torch.save
    retval,      \* <<>> or <<the returned 7-tuple>>
    fault,       \* "" or the name of the unhandled exception
    \* ---- kl_divergence / forward ----
    fpc,         \* position of the numeric harness
    klIn,        \* argument tensors (mu, sigma) of kl_divergence
    klOut,       \* <<>> or <<value returned by kl_divergence>>
    params,      \* model parameters (weights, biases, decoder log_variance)
    beta,        \* VariationalAutoencoder.beta
    rng,         \* state of the global random source
    runs         \* the last two forward() executions, oldest first

trainVars == <<pc, ldim, epochs, trainLoader, bound, n_cols, t, lists, z, vae,
               optimizer, calls, stdout, stderrOut, sys_stderr, exitStatus,
               saved, retval, fault>>
numVars == <<fpc, klIn, klOut, params, beta, rng, runs>>
vars == <<pc, ldim, epochs, trainLoader, bound, n_cols, t, lists, z, vae,
          optimizer, calls, stdout, stderrOut, sys_stderr, exitStatus,
          saved, retval, fault, fpc, klIn, klOut, params, beta, rng, runs>>

----------------------------------------------------------------------------
(* Bounds *)
MaxDim == 3
MaxEpochs == 3
MaxBatches == 1
KLElems == 2
InputDim == 1
HiddenDim == 1
LatentDim == 2
MaxN == 2

----------------------------------------------------------------------------
(* run_VAE_training                                                        *)

ListNames == {"train_elbo", "train_Dkl", "train_recon_loss",
              "test_elbo", "test_Dkl", "test_recon_loss"}

ErrorMessage == "ERROR: Latent dimension cannot be greater than the number of columns in the dataset."

\* Values a train()/test() call may return for (elbo, Dkl, recon_loss).
Metrics == {[elbo |-> 11, Dkl |-> 12, recon_loss |-> 13],
            [elbo |-> 21, Dkl |-> 22, recon_loss |-> 23]}

\* Latent arrays a test() call may hand back.
ZVals == {"zA", "zB"}

\* State of the numeric part while run_VAE_training is being explored.
NumIdle ==
    /\ fpc = "idle"
    /\ klIn = <<>>
    /\ klOut = <<>>
    /\ params = <<>>
    /\ beta = 0
    /\ rng = 0
    /\ runs = <<>>

\* State of run_VAE_training while the numeric part is being explored.
TrainIdle ==
    /\ pc = "idle"
    /\ ldim = 0
    /\ epochs = 0
    /\ trainLoader = <<>>
    /\ bound = {}
    /\ n_cols = 0
    /\ t = 0
    /\ lists = [l \in ListNames |-> <<>>]
    /\ z = ""
    /\ vae = <<>>
    /\ optimizer = FALSE
    /\ calls = <<>>
    /\ stdout = <<>>
    /\ stderrOut = <<>>
    /\ sys_stderr = "stream"
    /\ exitStatus = <<>>
    /\ saved = <<>>
    /\ retval = <<>>
    /\ fault = ""

\* Entry of run_VAE_training: the arguments and the data files are the inputs.
Init ==
    /\ pc = "start"
    /\ ldim \in 1..MaxDim
    /\ epochs \in 0..MaxEpochs
    /\ \E cols \in 1..MaxDim, n \in 0..MaxBatches :
           trainLoader = [i \in 1..n |-> cols]
    /\ bound = {}
    /\ n_cols = 0
    /\ t = 0
    /\ lists = [l \in ListNames |-> <<>>]
    /\ z = ""
    /\ vae = <<>>
    /\ optimizer = FALSE
    /\ calls = <<>>
    /\ stdout = <<>>
    /\ stderrOut = <<>>
    /\ sys_stderr = "stream"
    /\ exitStatus = <<>>
    /\ saved = <<>>
    /\ retval = <<>>
    /\ fault = ""
    /\ NumIdle

\* Lines 166-172: the data loaders are created and the device is printed.
Start ==
    /\ pc = "start"
    /\ stdout' = Append(stdout, "Using device")
    /\ pc' = "first_batch"
    /\ UNCHANGED <<ldim, epochs, trainLoader, bound, n_cols, t, lists, z, vae,
                   optimizer, calls, stderrOut, sys_stderr, exitStatus,
                   saved, retval, fault>>
    /\ UNCHANGED numVars

\* Lines 174-176: n_cols is assigned from the first batch, if there is one.
FirstBatch ==
    /\ pc = "first_batch"
    /\ IF Len(trainLoader) > 0
          THEN /\ n_cols' = trainLoader[1]
               /\ bound' = bound \cup {"n_cols"}
          ELSE UNCHANGED <<n_cols, bound>>
    /\ pc' = "check"
    /\ UNCHANGED <<ldim, epochs, trainLoader, t, lists, z, vae, optimizer,
                   calls, stdout, stderrOut, sys_stderr, exitStatus, saved,
                   retval, fault>>
    /\ UNCHANGED numVars

\* Line 177: the configuration test `ldim > n_cols`.
RejectedOffByOne(l, n) == l >= n

Rejected(l, n) == l > n

\* Line 177 reading a name that was never assigned.
CheckUnbound ==
    /\ pc = "check"
    /\ "n_cols" \notin bound
    /\ fault' = "UnboundLocalError"
    /\ pc' = "fault"
    /\ UNCHANGED <<ldim, epochs, trainLoader, bound, n_cols, t, lists, z, vae,
                   optimizer, calls, stdout, stderrOut, sys_stderr,
                   exitStatus, saved, retval>>
    /\ UNCHANGED numVars

\* Lines 177-180: print() writes the message to standard output and returns
\* None, which is assigned to sys.stderr; then sys.exit(0).
Reject ==
    /\ pc = "check"
    /\ "n_cols" \in bound
    /\ Rejected(ldim, n_cols)
    /\ stdout' = Append(stdout, ErrorMessage)
    /\ sys_stderr' = "None"
    /\ exitStatus' = <<0>>
    /\ pc' = "exited"
    /\ UNCHANGED <<ldim, epochs, trainLoader, bound, n_cols, t, lists, z, vae,
                   optimizer, calls, stderrOut, saved, retval, fault>>
    /\ UNCHANGED numVars

\* Lines 177, 182-192: the configuration is accepted, the model and the
\* optimizer are created, the six lists start empty.
Construct ==
    /\ pc = "check"
    /\ "n_cols" \in bound
    /\ ~Rejected(ldim, n_cols)
    /\ vae' = <<0>>
    /\ optimizer' = TRUE
    /\ lists' = [l \in ListNames |-> <<>>]
    /\ pc' = "loop"
    /\ UNCHANGED <<ldim, epochs, trainLoader, bound, n_cols, t, z, calls,
                   stdout, stderrOut, sys_stderr, exitStatus, saved, retval,
                   fault>>
    /\ UNCHANGED numVars

\* utils.train(vae, train_dataloader, optimizer, device): steps the optimizer
\* (new parameter version) and returns the epoch's three metrics.
TrainCall(m) ==
    /\ vae' = <<vae[1] + 1>>
    /\ calls' = Append(calls, [fn |-> "train", epoch |-> t, flag |-> FALSE,
                               ret |-> m, z |-> ""])

\* utils.test(vae, test_dataloader, flag, device): no parameter change,
\* returns the three metrics and a latent array.
TestCall(flag, m, zv) ==
    /\ vae' = vae
    /\ calls' = Append(calls, [fn |-> "test", epoch |-> t, flag |-> flag,
                               ret |-> m, z |-> zv])

\* Lines 199-201: the three appends after train().
AppendTrain(ls, m) ==
    [ls EXCEPT !["train_elbo"] = Append(@, m.elbo),
               !["train_Dkl"] = Append(@, m.Dkl),
               !["train_recon_loss"] = Append(@, m.recon_loss)]

AppendTestDropsDkl(ls, m) ==
    [ls EXCEPT !["test_elbo"] = Append(@, m.elbo),
               !["test_recon_loss"] = Append(@, m.recon_loss)]

\* Lines 210-212: the three appends after test().
AppendTest(ls, m) ==
    [ls EXCEPT !["test_elbo"] = Append(@, m.elbo),
               !["test_Dkl"] = Append(@, m.Dkl),
               !["test_recon_loss"] = Append(@, m.recon_loss)]

\* Line 194: `for t in range(epochs)` has no further value.
LoopExhaustedEarly(tt, ep) == ~(tt < ep - 1)

LoopExhausted(tt, ep) == ~(tt < ep)

\* Lines 194-201: next value of t, train() and the three appends.
TrainEpoch ==
    /\ pc = "loop"
    /\ ~LoopExhausted(t, epochs)
    /\ \E m \in Metrics :
          /\ TrainCall(m)
          /\ lists' = AppendTrain(lists, m)
    /\ stdout' = Append(stdout, "Epoch")
    /\ pc' = "test"
    /\ UNCHANGED <<ldim, epochs, trainLoader, bound, n_cols, t, z, optimizer,
                   stderrOut, sys_stderr, exitStatus, saved, retval, fault>>
    /\ UNCHANGED numVars

CaptureFlagEveryEpoch(tt, ep) == tt <= ep - 1

\* The flag passed to test() on lines 202-209.
CaptureFlag(tt, ep) == tt = ep - 1

\* Lines 202-212: test() with the capture flag and the three appends; z is
\* assigned only in the branch of the last epoch.
TestEpoch ==
    /\ pc = "test"
    /\ \E m \in Metrics, zv \in ZVals :
          /\ TestCall(CaptureFlag(t, epochs), m, zv)
          /\ IF CaptureFlag(t, epochs)
                THEN /\ z' = zv
                     /\ bound' = bound \cup {"z"}
                ELSE UNCHANGED <<z, bound>>
          /\ lists' = AppendTest(lists, m)
    /\ t' = t + 1
    /\ pc' = "loop"
    /\ UNCHANGED <<ldim, epochs, trainLoader, n_cols, optimizer, stdout,
                   stderrOut, sys_stderr, exitStatus, saved, retval, fault>>
    /\ UNCHANGED numVars

\* Lines 213-215: the loop is exhausted, "Done!" is printed, the model is saved.
Save ==
    /\ pc = "loop"
    /\ LoopExhausted(t, epochs)
    /\ stdout' = Append(stdout, "Done!")
    /\ saved' = Append(saved, vae)
    /\ pc' = "return"
    /\ UNCHANGED <<ldim, epochs, trainLoader, bound, n_cols, t, lists, z, vae,
                   optimizer, calls, stderrOut, sys_stderr, exitStatus,
                   retval, fault>>
    /\ UNCHANGED numVars

\* Lines 217-218 reading z that was never assigned.
ReturnUnbound ==
    /\ pc = "return"
    /\ "z" \notin bound
    /\ fault' = "UnboundLocalError"
    /\ pc' = "fault"
    /\ UNCHANGED <<ldim, epochs, trainLoader, bound, n_cols, t, lists, z, vae,
                   optimizer, calls, stdout, stderrOut, sys_stderr,
                   exitStatus, saved, retval>>
    /\ UNCHANGED numVars

\* Lines 217-218: the 7-tuple is returned.
Return ==
    /\ pc = "return"
    /\ "z" \in bound
    /\ retval' = << <<lists["train_elbo"], lists["train_Dkl"],
                      lists["train_recon_loss"], lists["test_elbo"],
                      lists["test_Dkl"], lists["test_recon_loss"], z>> >>
    /\ pc' = "returned"
    /\ UNCHANGED <<ldim, epochs, trainLoader, bound, n_cols, t, lists, z, vae,
                   optimizer, calls, stdout, stderrOut, sys_stderr,
                   exitStatus, saved, fault>>
    /\ UNCHANGED numVars

Next ==
    \/ Start
    \/ FirstBatch
    \/ CheckUnbound
    \/ Reject
    \/ Construct
    \/ TrainEpoch
    \/ TestEpoch
    \/ Save
    \/ ReturnUnbound
    \/ Return

Spec == Init /\ [][Next]_vars

----------------------------------------------------------------------------
(* Finite-precision arithmetic of the tensors                              *)

\* Units per 1.0.
Scale == 10 * 10 * 10

\* a / b (b > 0) rounded to the nearest unit, ties away from zero.
Div(a, b) ==
    IF a >= 0 THEN (2 * a + b) \div (2 * b)
              ELSE -((2 * (-a) + b) \div (2 * b))

\* a * b of two fixed-point numbers.
Mul(a, b) == Div(a * b, Scale)

\* A tensor given elementwise, stored as a tuple.
Tensor(f) == SubSeq(f, 1, Len(f))

RECURSIVE SumSeq(_)
\* tensor.sum() of a flat sequence.
SumSeq(s) == IF s = <<>> THEN 0 ELSE s[1] + SumSeq(Tail(s))

RECURSIVE Flat(_)
\* the elements of a 2-d tensor, row after row.
Flat(m) == IF m = <<>> THEN <<>> ELSE m[1] \o Flat(Tail(m))

RECURSIVE Exp(_)
\* torch.exp: exp(x) = exp(x div 2)^2 * exp(x mod 2) down to |x| <= Scale/8,
\* then the cubic Taylor polynomial.
Exp(x) ==
    IF x > Scale \div 8 \/ x < -(Scale \div 8)
       THEN LET e == Exp(x \div 2)
                sq == Mul(e, e)
            IN  IF x % 2 = 0 THEN sq ELSE Mul(sq, Exp(1))
       ELSE Scale + x + Div(x * x, 2 * Scale) + Div(x * x * x, 6 * Scale * Scale)

\* log on [1, 2]: 2 * atanh((x-1)/(x+1)) by its series.
LnSeries(x) ==
    LET y == Div((x - Scale) * Scale, x + Scale)
        y2 == Mul(y, y)
        y3 == Mul(y, y2)
        y5 == Mul(y3, y2)
        y7 == Mul(y5, y2)
    IN  2 * y + Div(2 * y3, 3) + Div(2 * y5, 5) + Div(2 * y7, 7)

Ln2 == LnSeries(2 * Scale)

RECURSIVE Ln(_)
\* torch.log for x > 0: reduction to [1, 2) by powers of two.
Ln(x) ==
    IF x >= 2 * Scale THEN Ln2 + Ln(Div(x, 2))
    ELSE IF x < Scale THEN Ln(2 * x) - Ln2
    ELSE LnSeries(x)

\* F.relu
Relu(v) == Tensor([i \in 1..Len(v) |-> IF v[i] > 0 THEN v[i] ELSE 0])

\* torch.sigmoid
Sigmoid(v) == Tensor([i \in 1..Len(v) |-> Div(Scale * Scale, Scale + Exp(-v[i]))])

\* nn.Linear: W x + b, W as a sequence of rows.
Linear(lin, x) ==
    Tensor([o \in 1..Len(lin.b) |->
        lin.b[o] + SumSeq(Tensor([i \in 1..Len(x) |-> Mul(lin.W[o][i], x[i])]))])

----------------------------------------------------------------------------
(* The model classes                                                       *)

\* EncoderNN.forward on one example: mu, sigma = exp(linear3), and the
\* linear3 output h itself (kept for inspection).
EncoderNN_forward(p, x) ==
    LET hid == Relu(Linear(p.enc_linear1, x))
        h == Linear(p.enc_linear3, hid)
    IN  [mu |-> Linear(p.enc_linear2, hid),
         sigma |-> Tensor([l \in 1..Len(h) |-> Exp(h[l])]),
         h |-> h]

\* State of the global generator after n further draws.
RngAdvance(s, n) == s + n

\* The standard-normal values the global generator yields, as a function of
\* its state; the stream repeats after Len(NoiseStream) draws.
NoiseStream == <<-Scale, Scale \div 2, 0, Scale, -(Scale \div 2)>>

NoiseUnseeded(s) == NoiseStream[((s + Len(runs)) % Len(NoiseStream)) + 1]

Noise(s) == NoiseStream[(s % Len(NoiseStream)) + 1]

\* EncoderGaussian.sample: q.rsample() = mu + std * eps.
Sample(mu, std, eps) == Tensor([l \in 1..Len(mu) |-> mu[l] + Mul(std[l], eps[l])])

StdNoHalving(log_var) == Tensor([l \in 1..Len(log_var) |-> Exp(log_var[l])])

\* Line 62: std = torch.exp(log_var / 2).
Std(log_var) == Tensor([l \in 1..Len(log_var) |-> Exp(Div(log_var[l], 2))])

\* EncoderGaussian.forward on example number i of the batch; g is the state
\* of the generator when the batch's rsample() starts.
EncoderGaussian_forward(p, x, i, g) ==
    LET e == EncoderNN_forward(p, x)
        std == Std(e.sigma)
        eps == Tensor([l \in 1..Len(e.mu) |-> Noise(RngAdvance(g, (i - 1) * Len(e.mu) + (l - 1)))])
    IN  [z |-> Sample(e.mu, std, eps), mu |-> e.mu, std |-> std,
         h |-> e.h, sigma |-> e.sigma]

\* DecoderNN.forward
DecoderNN_forward(p, zz) ==
    Sigmoid(Linear(p.dec_linear2, Relu(Linear(p.dec_linear1, zz))))

\* log(sqrt(2*pi)) of Normal.log_prob, with 2*pi = 6.283.
LogSqrt2Pi == Div(Ln(6 * Scale + 283), 2)

\* distributions.Normal(mean, scale).log_prob(x), one element.
NormalLogProb(mean, scale, x) ==
    LET d == x - mean
    IN  -Div(Mul(d, d) * Scale, 2 * Mul(scale, scale)) - Ln(scale) - LogSqrt2Pi

\* DecoderGaussian.log_prob_xz on one example: exp(log_variance) is passed
\* as the scale of the Normal; the log densities are summed over features.
log_prob_xz(mean, log_variance, x) ==
    LET variance == Exp(log_variance)
    IN  SumSeq(Tensor([d \in 1..Len(x) |-> NormalLogProb(mean[d], variance, x[d])]))

\* DecoderGaussian.forward on one example.
DecoderGaussian_forward(p, zz, x) ==
    LET out == DecoderNN_forward(p, zz)
    IN  [out |-> out, recon_loss |-> log_prob_xz(out, p.log_variance, x)]

\* One element of line 134: sigma**2 + mu**2 - log(sigma) - 1/2.
KLTerm(m, sg) == Mul(sg, sg) + Mul(m, m) - Ln(sg) - Div(Scale, 2)

KLPerExampleMean(mu, sigma) ==
    LET m == Flat(mu)
        sg == Flat(sigma)
    IN  Div(SumSeq(Tensor([k \in 1..Len(m) |-> KLTerm(m[k], sg[k])])), Len(mu))

\* VariationalAutoencoder.kl_divergence: .sum() over every element of the
\* (examples x latent) tensor.
kl_divergence(mu, sigma) ==
    LET m == Flat(mu)
        sg == Flat(sigma)
    IN  SumSeq(Tensor([k \in 1..Len(m) |-> KLTerm(m[k], sg[k])]))

\* tensor.mean() of a 1-d tensor.
Mean(s) == Div(SumSeq(s), Len(s))

\* Parameters after forward(): lines 147-152 assign to no parameter.
ParamsAfterForward(p) == p

\* Number of values the batch's single rsample() takes from the generator.
NoiseDrawn(n, l) == n * l

\* VariationalAutoencoder.forward on batch x with generator state g.
VAE_forward(p, b, x, g) ==
    LET N == Len(x)
        enc == Tensor([i \in 1..N |-> EncoderGaussian_forward(p, x[i], i, g)])
        dec == Tensor([i \in 1..N |-> DecoderGaussian_forward(p, enc[i].z, x[i])])
        mu == Tensor([i \in 1..N |-> enc[i].mu])
        sigma == Tensor([i \in 1..N |-> enc[i].std])
        recon_loss == Tensor([i \in 1..N |-> dec[i].recon_loss])
        Dkl == kl_divergence(mu, sigma)
    IN  [elbo |-> Mean(Tensor([i \in 1..N |-> Mul(Dkl, b) - recon_loss[i]])),
         kl |-> Dkl,
         recon_ll |-> Mean(recon_loss),
         z |-> Tensor([i \in 1..N |-> enc[i].z]),
         mu |-> mu,
         std |-> sigma,
         h |-> Tensor([i \in 1..N |-> enc[i].h]),
         enc_sigma |-> Tensor([i \in 1..N |-> enc[i].sigma]),
         recon_loss |-> recon_loss]

----------------------------------------------------------------------------
(* Inputs of the numeric specifications                                    *)

Fill(n, v) == Tensor([i \in 1..n |-> v])

\* nn.Linear(in, out) with every weight w and every bias b.
MkLinear(in, out, w, b) == [W |-> Fill(out, Fill(in, w)), b |-> Fill(out, b)]

\* Parameter values of a model EncoderNN(D, L, H) / DecoderNN(D, L, H).
ParamSet ==
    { [enc_linear1 |-> MkLinear(InputDim, HiddenDim, Scale, 0),
       enc_linear2 |-> MkLinear(HiddenDim, LatentDim, wm, 0),
       enc_linear3 |-> MkLinear(HiddenDim, LatentDim, ws, bs),
       dec_linear1 |-> MkLinear(LatentDim, HiddenDim, Scale \div 2, 0),
       dec_linear2 |-> MkLinear(HiddenDim, InputDim, Scale \div 2, 0),
       log_variance |-> lv] :
      wm \in {Scale \div 2},
      ws \in {0, -(Scale \div 2)},
      bs \in {-17 * Scale, -Scale, 0},
      lv \in {0} }

Betas == {Scale \div 2, 2 * Scale}

\* Batches of 1..MaxN equal examples, and a batch of two different examples.
Batches ==
    {Fill(n, Fill(InputDim, Scale)) : n \in 1..MaxN}
        \cup {<<Fill(InputDim, 0), Fill(InputDim, Scale)>>}

Seeds == {0, 1}

\* Grid of the kl_divergence arguments: sigma > 0.
MuGrid == {-Scale, 0, Scale \div 2}
SigmaGrid == {1, Scale \div 2, (707 * Scale) \div 1000, Scale, 2 * Scale}

----------------------------------------------------------------------------
(* kl_divergence as a function (specification SpecKL)                      *)

InitKL ==
    /\ TrainIdle
    /\ fpc = "kl_ready"
    /\ klIn \in [mu : [1..1 -> [1..KLElems -> MuGrid]],
                 sigma : [1..1 -> [1..KLElems -> SigmaGrid]]]
    /\ klOut = <<>>
    /\ params = <<>>
    /\ beta = 0
    /\ rng = 0
    /\ runs = <<>>

\* Dkl = self.kl_divergence(mu, sigma)
ApplyKL ==
    /\ fpc = "kl_ready"
    /\ klOut' = <<kl_divergence(klIn.mu, klIn.sigma)>>
    /\ fpc' = "kl_done"
    /\ UNCHANGED <<klIn, params, beta, rng, runs>>
    /\ UNCHANGED trainVars

NextKL == ApplyKL

SpecKL == InitKL /\ [][NextKL]_vars

----------------------------------------------------------------------------
(* forward (specification SpecFwd)                                         *)

InitFwd ==
    /\ TrainIdle
    /\ fpc = "fwd"
    /\ klIn = <<>>
    /\ klOut = <<>>
    /\ params \in ParamSet
    /\ beta \in Betas
    /\ rng \in Seeds
    /\ runs = <<>>

\* The two most recent entries of a log.
LastTwo(s) == IF Len(s) > 2 THEN SubSeq(s, Len(s) - 1, Len(s)) ELSE s

\* One call vae(x): the outputs are computed from the parameters, the batch
\* and the generator state; the generator moves past the noise taken.
Forward ==
    /\ fpc = "fwd"
    /\ \E x \in Batches :
          LET r == VAE_forward(params, beta, x, rng)
              g == RngAdvance(rng, NoiseDrawn(Len(x), LatentDim)) % Len(NoiseStream)
              pa == ParamsAfterForward(params)
          IN  /\ runs' = LastTwo(Append(runs, [x |-> x, params |-> params,
                                               paramsAfter |-> pa,
                                               rngIn |-> rng, rngOut |-> g,
                                               out |-> r]))
              /\ rng' = g
              /\ params' = pa
    /\ UNCHANGED <<fpc, klIn, klOut, beta>>
    /\ UNCHANGED trainVars

\* torch.manual_seed(s): the generator is put back into a seeded state.
Reseed ==
    /\ fpc = "fwd"
    /\ \E s \in Seeds : rng' = s
    /\ rng' # rng
    /\ UNCHANGED <<fpc, klIn, klOut, params, beta, runs>>
    /\ UNCHANGED trainVars

NextFwd ==
    \/ Forward
    \/ Reseed

SpecFwd == InitFwd /\ [][NextFwd]_vars

----------------------------------------------------------------------------
(* Properties of run_VAE_training (specification Spec)                     *)

Range(s) == {s[i] : i \in 1..Len(s)}

PastCheck == pc \notin {"idle", "start", "first_batch", "check"}

\* C1: when ldim > n_cols the run exits before the model exists (no model,
\* no optimizer, no train()/test() call, no save); when ldim <= n_cols
\* (equality included) the run is not rejected and the model is constructed.
C1_RejectBeforeConstruction ==
    /\ ("n_cols" \in bound /\ ldim > n_cols /\ PastCheck) =>
           /\ pc = "exited"
           /\ vae = <<>>
           /\ ~optimizer
           /\ calls = <<>>
           /\ saved = <<>>
    /\ ("n_cols" \in bound /\ ldim <= n_cols /\ PastCheck) =>
           /\ pc # "exited"
           /\ exitStatus = <<>>
           /\ vae # <<>>
           /\ optimizer

C1_Witness == pc = "exited" /\ "n_cols" \in bound /\ ldim > n_cols

\* C2: on the configuration error the message is written to standard error,
\* not to standard output, and the process ends with an error status.
C2_ErrorToStderr ==
    pc = "exited" =>
        /\ ErrorMessage \in Range(stderrOut)
        /\ ErrorMessage \notin Range(stdout)
        /\ exitStatus # <<0>>

\* C3: after k completed epoch iterations each of the six lists has exactly
\* k entries, entry j being what the j-th train()/test() call returned; the
\* returned lists of an accepted run with epochs >= 1 have epochs entries.
C3_ListLengths ==
    /\ pc = "loop" =>
           /\ \A l \in ListNames : Len(lists[l]) = t
           /\ Len(calls) = 2 * t
           /\ \A j \in 1..t :
                 /\ lists["train_elbo"][j] = calls[2 * j - 1].ret.elbo
                 /\ lists["train_Dkl"][j] = calls[2 * j - 1].ret.Dkl
                 /\ lists["train_recon_loss"][j] = calls[2 * j - 1].ret.recon_loss
                 /\ lists["test_elbo"][j] = calls[2 * j].ret.elbo
                 /\ lists["test_Dkl"][j] = calls[2 * j].ret.Dkl
                 /\ lists["test_recon_loss"][j] = calls[2 * j].ret.recon_loss
    /\ (pc = "returned" /\ epochs >= 1) =>
           /\ \A i \in 1..6 : Len(retval[1][i]) = epochs
           /\ retval[1][1] = lists["train_elbo"]
           /\ retval[1][2] = lists["train_Dkl"]
           /\ retval[1][3] = lists["train_recon_loss"]
           /\ retval[1][4] = lists["test_elbo"]
           /\ retval[1][5] = lists["test_Dkl"]
           /\ retval[1][6] = lists["test_recon_loss"]

C3_Witness == pc = "returned" /\ epochs = MaxEpochs /\ Len(retval[1][5]) = MaxEpochs

\* C4: per epoch, train() is called and then test() exactly once; the capture
\* flag of test() is True in the epoch t = epochs-1 and in no other; the z
\* that is returned is the one of the last epoch's test() call.
C4_TestAfterTrainCaptureLast ==
    /\ \A i \in 1..Len(calls) :
          /\ calls[i].fn = (IF i % 2 = 1 THEN "train" ELSE "test")
          /\ calls[i].epoch = (i - 1) \div 2
          /\ calls[i].fn = "test" => (calls[i].flag <=> calls[i].epoch = epochs - 1)
    /\ pc = "test" => Len(calls) = 2 * t + 1
    /\ pc = "returned" =>
          /\ Len(calls) = 2 * epochs
          /\ calls[Len(calls)].fn = "test"
          /\ calls[Len(calls)].flag
          /\ retval[1][7] = calls[Len(calls)].z

C4_Witness ==
    /\ pc = "returned"
    /\ epochs >= 2
    /\ calls[2].z # calls[Len(calls)].z
    /\ retval[1][7] = calls[Len(calls)].z

\* C5: the model is saved at most once, only after all epochs iterations;
\* no train()/test() call and no parameter change follows the save; the
\* rejected run never saves.
C5_SaveOnceAtEnd ==
    /\ Len(saved) <= 1
    /\ saved # <<>> =>
          /\ pc \in {"return", "returned", "fault"}
          /\ t = epochs
          /\ Len(calls) = 2 * epochs
          /\ saved[1] = vae
    /\ pc = "exited" => saved = <<>>

C5_Witness == Len(saved) = 1 /\ epochs >= 2 /\ saved[1] = <<epochs>>

\* C10: no local of run_VAE_training is read before it is assigned, for
\* every epochs >= 0 and every loader, so no run faults on an unbound name.
C10_NoUnboundRead == fault # "UnboundLocalError"

----------------------------------------------------------------------------
(* Properties of kl_divergence (specification SpecKL)                      *)

KLStandard ==
    \A k \in 1..KLElems : klIn.mu[1][k] = 0 /\ klIn.sigma[1][k] = Scale

\* C6: kl_divergence(mu, sigma) is zero exactly when mu = 0 and sigma = 1
\* elementwise, and it is never negative for sigma > 0.
C6_KLZeroIffStandard ==
    fpc = "kl_done" =>
        /\ klOut[1] = 0 <=> KLStandard
        /\ klOut[1] >= 0

----------------------------------------------------------------------------
(* Properties of forward (specification SpecFwd)                           *)

RunIdx == 1..Len(runs)

\* The sum over all examples and latent dimensions of the terms of line 134.
BatchKL(o) ==
    SumSeq(Tensor([i \in 1..Len(o.mu) |->
        SumSeq(Tensor([l \in 1..Len(o.mu[i]) |-> KLTerm(o.mu[i][l], o.std[i][l])]))]))

\* C7: elbo = beta * Dkl - mean_i(recon_ll_i) with Dkl the scalar summed over
\* the whole batch and all latent dimensions; the second output is that Dkl
\* unchanged; on N equal examples Dkl (and with it the KL part of elbo) is N
\* times that of a batch of one such example.
C7_BatchSummedKL ==
    /\ \A r \in RunIdx :
          LET o == runs[r].out
              N == Len(runs[r].x)
          IN  /\ o.kl = BatchKL(o)
              /\ o.elbo = Div(N * Mul(o.kl, beta) - SumSeq(o.recon_loss), N)
              /\ o.recon_ll = Div(SumSeq(o.recon_loss), N)
    /\ \A r1, r2 \in RunIdx :
          (/\ Len(runs[r2].x) = 1
           /\ runs[r1].x = Fill(Len(runs[r1].x), runs[r2].x[1])) =>
              /\ runs[r1].out.kl = Len(runs[r1].x) * runs[r2].out.kl
              /\ beta % Scale = 0 =>
                    Mul(runs[r1].out.kl, beta) =
                        Len(runs[r1].x) * Mul(runs[r2].out.kl, beta)

C7_Witness ==
    /\ Len(runs) = 2
    /\ Len(runs[1].x) = MaxN
    /\ runs[1].x = Fill(MaxN, runs[2].x[1])
    /\ Len(runs[2].x) = 1
    /\ runs[2].out.kl > 0
    /\ runs[1].out.kl = MaxN * runs[2].out.kl
    /\ beta = 2 * Scale

StdIsDoubleExp(o) ==
    \A i \in 1..Len(o.h) : \A l \in 1..Len(o.h[i]) :
        /\ o.enc_sigma[i][l] = Exp(o.h[i][l])
        /\ o.std[i][l] = Exp(Div(Exp(o.h[i][l]), 2))
        /\ o.h[i][l] = 0 =>
              /\ o.enc_sigma[i][l] = Scale
              /\ o.std[i][l] = Exp(Div(Scale, 2))

\* C9: std = exp(exp(h)/2) for the linear3 output h, so std is strictly
\* greater than 1 for every input and parameter value; for h = 0 the sigma of
\* EncoderNN is exactly 1 and std is exp(1/2).
C9_StdAboveOne ==
    \A r \in RunIdx :
        /\ StdIsDoubleExp(runs[r].out)
        /\ \A i \in 1..Len(runs[r].out.std) : \A l \in 1..LatentDim :
              runs[r].out.std[i][l] > Scale

\* C9 as amended: std = exp(exp(h)/2) is never below 1, and is strictly
\* greater than 1 whenever exp(h)/2 is at least one unit of the arithmetic
\* (a strongly negative h makes exp(h)/2 round away and std exactly 1); for
\* h = 0 the sigma of EncoderNN is exactly 1 and std is exp(1/2).
C9_StdAtLeastOne ==
    \A r \in RunIdx :
        /\ StdIsDoubleExp(runs[r].out)
        /\ \A i \in 1..Len(runs[r].out.std) : \A l \in 1..LatentDim :
              /\ runs[r].out.std[i][l] >= Scale
              /\ Div(Exp(runs[r].out.h[i][l]), 2) >= 1 =>
                    runs[r].out.std[i][l] > Scale

C9_Witness ==
    \E r \in RunIdx :
        /\ runs[r].out.h[1][1] = 0
        /\ runs[r].out.enc_sigma[1][1] = Scale
        /\ runs[r].out.std[1][1] = Exp(Div(Scale, 2))
        /\ runs[r].out.std[1][1] > Scale

====
